---------------------------- MODULE Spec2Model ----------------------------
(***************************************************************************)
(* State-machine model of the S&P 500 trend scorer                         *)
(* (src/maverick_mcp/tools/trend_scorer.py, class SP500TrendScorer) and of  *)
(* the two MCP tools that call it (api/routers/tool_registry.py).          *)
(*                                                                         *)
(* Numbers.  Python floats are modelled by exact fixed-point integers:     *)
(*   - every intermediate of the aggregation is held in units of 1/9000    *)
(*     (ScoreUnit), in which 2.1/9, 2.1, 4.2 and 100 are all whole;        *)
(*   - normalized_trend_score is held in hundredths (round(x, 2)) and      *)
(*     weighted_raw_score in thousandths (round(x, 3));                    *)
(*   - RSI, ADX, +DI, -DI are held in hundredths; prices and moving        *)
(*     averages in whole currency units.                                   *)
(* For the 19 legal component sums the exact value is never within 1/9 of  *)
(* a rounding tie, so the double-precision result rounds the same way.     *)
(*                                                                         *)
(* Text.  A ticker is a sequence of one-character strings; a date string   *)
(* "YYYY-MM-DD" is a record [kind |-> "str", y, m, d]; a datetime is the   *)
(* day number since 1970-01-01.  Python's None is the record NoneVal.      *)
(***************************************************************************)
EXTENDS Integers, Sequences, FiniteSets, TLC

\* ------------------------------------------------------------------ bounds
\* Longest ticker list handed to calculate_batch_scores.
MaxBatch == 3

\* ------------------------------------------------------- program constants
\* calculate_trend_score: "len(data) < 50".
MinBars == 50
\* mapping.get(period, 186).
DefaultDays == 186
\* Fixed-point scale of the aggregation: 9000 units per 1.0.
ScoreUnit == 9000

NoneVal == [kind |-> "None"]
NaT == [kind |-> "NaT"]
NaN == [kind |-> "NaN"]

IsNone(x) == x.kind = "None"
IsNaN(x) == x.kind = "NaN"
Num(v) == [kind |-> "num", v |-> v]

\* ------------------------------------------------------------------- dates
\* datetime.strptime(s, "%Y-%m-%d") accepts s iff it names a calendar day.
IsLeap(y) == (y % 4 = 0 /\ y % 100 # 0) \/ y % 400 = 0

DaysInMonth(y, m) ==
    CASE m \in {4, 6, 9, 11} -> 30
      [] m = 2 -> IF IsLeap(y) THEN 29 ELSE 28
      [] OTHER -> 31

ValidDateStr(s) ==
    /\ s.kind = "str"
    /\ s.m \in 1..12
    /\ s.d \in 1..DaysInMonth(s.y, s.m)

\* strptime on a valid string: the day number of the civil date.
Strptime(s) ==
    LET y   == IF s.m <= 2 THEN s.y - 1 ELSE s.y
        era == y \div 400
        yoe == y - era * 400
        mp  == IF s.m > 2 THEN s.m - 3 ELSE s.m + 9
        doy == (153 * mp + 2) \div 5 + s.d - 1
        doe == yoe * 365 + yoe \div 4 - yoe \div 100 + doy
    IN era * 146097 + doe - 719468

\* strftime("%Y-%m-%d") of a day number.
Strftime(z0) ==
    LET z   == z0 + 719468
        era == z \div 146097
        doe == z - era * 146097
        yoe == (doe - doe \div 1460 + doe \div 36524 - doe \div 146096) \div 365
        doy == doe - (365 * yoe + yoe \div 4 - yoe \div 100)
        mp  == (5 * doy + 2) \div 153
        d   == doy - (153 * mp + 2) \div 5 + 1
        m   == IF mp < 10 THEN mp + 3 ELSE mp - 9
        y   == yoe + era * 400 + (IF m <= 2 THEN 1 ELSE 0)
    IN [kind |-> "str", y |-> y, m |-> m, d |-> d]

DateStr(y, m, d) == [kind |-> "str", y |-> y, m |-> m, d |-> d]

\* ------------------------------------------------------------ _period_to_days
PeriodToDaysDefault365(period) ==
    CASE period = "1mo" -> 31
      [] period = "3mo" -> 93
      [] period = "6mo" -> 186
      [] period = "1y"  -> 365
      [] period = "2y"  -> 730
      [] OTHER          -> 365

_period_to_days(period) ==
    CASE period = "1mo" -> 31
      [] period = "3mo" -> 93
      [] period = "6mo" -> 186
      [] period = "1y"  -> 365
      [] period = "2y"  -> 730
      [] OTHER          -> DefaultDays

\* ------------------------------------------------- _normalize_polygon_ticker
\* only the first hyphen is rewritten
NormalizeFirstHyphenOnly(ticker) ==
    [k \in 1..Len(ticker) |->
        IF ticker[k] = "-" /\ (\A j \in 1..(k - 1) : ticker[j] # "-")
        THEN "." ELSE ticker[k]]

\* ticker.replace("-", "."): every hyphen becomes a dot.
_normalize_polygon_ticker(ticker) ==
    [k \in 1..Len(ticker) |-> IF ticker[k] = "-" THEN "." ELSE ticker[k]]


\* ------------------------------------------------------------ the price data
(***************************************************************************)
(* A DataFrame returned by get_stock_data is abstracted to what the engine *)
(* reads from it:                                                          *)
(*   n          len(data)                                                  *)
(*   cols       "ok", or "dup_close" when the payload rows carry both a    *)
(*              "c" and a "Close" key, so that data['Close'] is a frame    *)
(*   last_date  data.index[-1]: a day number, or NaT (last row's t null)   *)
(*   close, ma20, ma50          last close and the rolling means           *)
(*   macd, signal, prev_macd    ta.trend.MACD, last and previous value     *)
(*   adx, plus_di, minus_di     ta.trend.ADXIndicator, last values         *)
(*   rsi                        ta.momentum.RSIIndicator, last value       *)
(*   obv                        last five On-Balance-Volume values         *)
(*   obv_fit                    sign of the rounding error np.polyfit leaves *)
(*                              on the slope fitted to them (-1, 0, 1)     *)
(* The indicator values are what pandas / ta compute from the bars; they   *)
(* are inputs of the model.                                                *)
(***************************************************************************)
Ind(close, ma20, ma50, macd, signal, prev_macd, adx, plus_di, minus_di, rsi, obv) ==
    [close |-> close, ma20 |-> ma20, ma50 |-> ma50,
     macd |-> macd, signal |-> signal, prev_macd |-> prev_macd,
     adx |-> adx, plus_di |-> plus_di, minus_di |-> minus_di,
     rsi |-> rsi, obv |-> obv, obv_fit |-> 0]

\* the same values with another rounding error of the fit
WithFit(ind, f) == [ind EXCEPT !.obv_fit = f]

\* ------------------------------------------------------- calculate_ma_score
\* the threshold taken as inclusive
RatioAtLeast(a, b, c, p) == 100 * (a - b) >= p * c

\* (a - b) / c > p/100 for c > 0, in exact arithmetic.
RatioAbove(a, b, c, p) == 100 * (a - b) > p * c

\* data['Close'] is a DataFrame: the chained comparison of line 170 raises
\* ValueError (truth value of a Series is ambiguous); no handler surrounds it.
MaRaises(data) == data.n >= 50 /\ data.cols = "dup_close"

MaScoreLadderOffByOne(data) ==
    LET P == data.ind.close
        S == data.ind.ma20
        L == data.ind.ma50
    IN IF data.n < 50 THEN 0
       ELSE IF P > S /\ S > L THEN
               (IF RatioAbove(S, L, L, 5) THEN 4
                ELSE IF RatioAbove(S, L, L, 2) THEN 2 ELSE 1)
       ELSE IF P > S THEN 1
       ELSE IF P < S /\ S < L THEN
               (IF RatioAbove(L, S, L, 5) THEN -3
                ELSE IF RatioAbove(L, S, L, 2) THEN -2 ELSE -1)
       ELSE IF P < S THEN -1
       ELSE 0

\* equal averages taken for neutral before the ladder
MaScoreTieNeutral(data) ==
    LET P == data.ind.close
        S == data.ind.ma20
        L == data.ind.ma50
    IN IF data.n < 50 THEN 0
       ELSE IF S = L THEN 0
       ELSE IF P > S /\ S > L THEN
               (IF RatioAbove(S, L, L, 5) THEN 3
                ELSE IF RatioAbove(S, L, L, 2) THEN 2 ELSE 1)
       ELSE IF P > S THEN 1
       ELSE IF P < S /\ S < L THEN
               (IF RatioAbove(L, S, L, 5) THEN -3
                ELSE IF RatioAbove(L, S, L, 2) THEN -2 ELSE -1)
       ELSE IF P < S THEN -1
       ELSE 0

calculate_ma_score(data) ==
    LET P == data.ind.close
        S == data.ind.ma20
        L == data.ind.ma50
    IN IF data.n < 50 THEN 0
       ELSE IF P > S /\ S > L THEN
               (IF RatioAbove(S, L, L, 5) THEN 3
                ELSE IF RatioAbove(S, L, L, 2) THEN 2 ELSE 1)
       ELSE IF P > S THEN 1
       ELSE IF P < S /\ S < L THEN
               (IF RatioAbove(L, S, L, 5) THEN -3
                ELSE IF RatioAbove(L, S, L, 2) THEN -2 ELSE -1)
       ELSE IF P < S THEN -1
       ELSE 0

\* ----------------------------------------------------- calculate_macd_score
\* latest - prev > 0 / < 0; a NaN previous value makes both comparisons false.
\* an unchanged MACD taken for rising
RisingOrFlat(latest, prev) == ~IsNaN(prev) /\ latest.v - prev.v >= 0

Rising(latest, prev)  == ~IsNaN(prev) /\ latest.v - prev.v > 0
Falling(latest, prev) == ~IsNaN(prev) /\ latest.v - prev.v < 0

\* the length guard set to the slow EMA's 26 bars
MacdScoreGuard26(data) ==
    LET m == data.ind.macd
        s == data.ind.signal
        p == data.ind.prev_macd
    IN IF data.n < 26 THEN 0
       ELSE IF IsNaN(m) \/ IsNaN(s) THEN 0
       ELSE IF m.v > s.v THEN (IF m.v > 0 /\ Rising(m, p) THEN 2 ELSE 1)
       ELSE IF m.v < s.v THEN (IF m.v < 0 /\ Falling(m, p) THEN -2 ELSE -1)
       ELSE 0

calculate_macd_score(data) ==
    LET m == data.ind.macd
        s == data.ind.signal
        p == data.ind.prev_macd
    IN IF data.n < 34 THEN 0
       ELSE IF IsNaN(m) \/ IsNaN(s) THEN 0
       ELSE IF m.v > s.v THEN (IF m.v > 0 /\ Rising(m, p) THEN 2 ELSE 1)
       ELSE IF m.v < s.v THEN (IF m.v < 0 /\ Falling(m, p) THEN -2 ELSE -1)
       ELSE 0

\* ------------------------------------------------------ calculate_adx_score
\* period = 14 (the default); ADX, +DI, -DI in hundredths.
\* equal directional indicators taken for neutral
AdxScoreTieNeutral(data) ==
    LET a  == data.ind.adx
        pd == data.ind.plus_di
        md == data.ind.minus_di
    IN IF data.n < 14 + 14 THEN 0
       ELSE IF IsNaN(a) \/ IsNaN(pd) \/ IsNaN(md) THEN 0
       ELSE IF pd.v = md.v THEN 0
       ELSE IF a.v > 3000 THEN (IF pd.v > md.v THEN 2 ELSE -2)
       ELSE IF a.v > 2000 THEN (IF pd.v > md.v THEN 1 ELSE -1)
       ELSE 0

calculate_adx_score(data) ==
    LET a  == data.ind.adx
        pd == data.ind.plus_di
        md == data.ind.minus_di
    IN IF data.n < 14 + 14 THEN 0
       ELSE IF IsNaN(a) \/ IsNaN(pd) \/ IsNaN(md) THEN 0
       ELSE IF a.v > 3000 THEN (IF pd.v > md.v THEN 2 ELSE -2)
       ELSE IF a.v > 2000 THEN (IF pd.v > md.v THEN 1 ELSE -1)
       ELSE 0

\* ------------------------------------------------------ calculate_rsi_score
\* period = 14 (the default); RSI in hundredths.
RsiScoreInclusive70(data) ==
    LET r == data.ind.rsi
    IN IF data.n < 14 THEN 0
       ELSE IF IsNaN(r) THEN 0
       ELSE IF r.v >= 7000 THEN -1
       ELSE IF r.v > 6000 THEN 1
       ELSE IF r.v < 3000 THEN 1
       ELSE IF r.v < 4000 THEN -1
       ELSE 0

\* the table made symmetric: oversold scored like bearish
RsiScoreSymmetric(data) ==
    LET r == data.ind.rsi
    IN IF data.n < 14 THEN 0
       ELSE IF IsNaN(r) THEN 0
       ELSE IF r.v > 7000 THEN -1
       ELSE IF r.v > 6000 THEN 1
       ELSE IF r.v < 3000 THEN -1
       ELSE IF r.v < 4000 THEN -1
       ELSE 0

calculate_rsi_score(data) ==
    LET r == data.ind.rsi
    IN IF data.n < 14 THEN 0
       ELSE IF IsNaN(r) THEN 0
       ELSE IF r.v > 7000 THEN -1
       ELSE IF r.v > 6000 THEN 1
       ELSE IF r.v < 3000 THEN 1
       ELSE IF r.v < 4000 THEN -1
       ELSE 0

\* ------------------------------------------------------ calculate_obv_score
\* np.polyfit(range(5), y, 1)[0]: the least-squares slope over x = 0..4 is
\* (-2*y0 - y1 + y3 + 2*y4) / 10; only its sign is used.
ObvSlopeTimes10(y) == -2 * y[1] - y[2] + y[4] + 2 * y[5]

\* The fit is computed in double precision (scaled Vandermonde matrix, LAPACK
\* least squares): a slope that is exactly zero comes out as 0.0 when all five
\* values are zero and otherwise as the rounding error of the solver, whose
\* sign depends on the values and on the numerical library.
PolyfitSlopeSign(ind) ==
    LET t == ObvSlopeTimes10(ind.obv)
    IN IF t > 0 THEN 1
       ELSE IF t < 0 THEN -1
       ELSE IF \A k \in 1..5 : ind.obv[k] = 0 THEN 0
       ELSE ind.obv_fit

calculate_obv_score(data) ==
    LET t == PolyfitSlopeSign(data.ind)
    IN IF data.n < 10 THEN 0
       ELSE IF Len(data.ind.obv) < 5 THEN 0
       ELSE IF t > 0 THEN 1
       ELSE IF t < 0 THEN -1
       ELSE 0

\* ------------------------------------------------- aggregation (lines 332-343)
\* the weight truncated to the 0.2333 of the comment
WeightTruncated == (2333 * ScoreUnit) \div 10000

\* self.weight = 2.1 / 9, in units of 1/ScoreUnit.
InitialWeight == (21 * ScoreUnit) \div 90

\* round(x / den) to the nearest integer, ties to even (Python's round).
RoundHalfEven(x, den) ==
    LET q == x \div den
        r == x % den
    IN IF 2 * r < den THEN q
       ELSE IF 2 * r > den THEN q + 1
       ELSE IF q % 2 = 0 THEN q ELSE q + 1

ScoreSum(ma, macd, adx, rsi, obv) == ma + macd + adx + rsi + obv

\* (ma + macd + adx + rsi + obv) * self.weight
WeightedRaw(sum, weight) == sum * weight

\* (weighted_raw_score + 2.1) / 4.2 * 100
NormalizeNoShift(wr) == (wr * 1000) \div 42

Normalize(wr) == ((wr + (21 * ScoreUnit) \div 10) * 1000) \div 42

\* max(0, min(100, normalized_score))
Clamp(x) ==
    LET hi == 100 * ScoreUnit
        lo == IF x < hi THEN x ELSE hi
    IN IF lo > 0 THEN lo ELSE 0

\* truncation to two decimals
TruncateNormalized(x) == (x * 100) \div ScoreUnit

\* round(normalized_score, 2), in hundredths
RoundNormalized(x) == RoundHalfEven(x * 100, ScoreUnit)

\* round(weighted_raw_score, 3), in thousandths
RoundWeighted(wr) == RoundHalfEven(wr * 1000, ScoreUnit)

TrendScoreResult(ticker, latest_date, norm, raw, ma, macd, adx, rsi, obv) ==
    [kind |-> "TrendScoreResult", ticker |-> ticker, latest_date |-> latest_date,
     normalized_trend_score |-> norm, weighted_raw_score |-> raw,
     ma_score |-> ma, macd_score |-> macd, adx_score |-> adx,
     rsi_score |-> rsi, obv_score |-> obv]


\* ------------------------------------------------------- results.sort(...)
\* list.sort(key=normalized_trend_score, reverse=True): descending and stable
\* (equal keys keep their original relative order).
RECURSIVE InsertDesc(_, _)
InsertDesc(x, s) ==
    IF Len(s) = 0 THEN <<x>>
    ELSE IF s[Len(s)].normalized_trend_score >= x.normalized_trend_score
         THEN Append(s, x)
         ELSE Append(InsertDesc(x, SubSeq(s, 1, Len(s) - 1)), s[Len(s)])

RECURSIVE Reversed(_)
Reversed(s) ==
    IF Len(s) = 0 THEN <<>> ELSE Append(Reversed(Tail(s)), Head(s))

RECURSIVE InsertAsc(_, _)
InsertAsc(x, s) ==
    IF Len(s) = 0 THEN <<x>>
    ELSE IF s[Len(s)].normalized_trend_score <= x.normalized_trend_score
         THEN Append(s, x)
         ELSE Append(InsertAsc(x, SubSeq(s, 1, Len(s) - 1)), s[Len(s)])

RECURSIVE SortAscending(_)
SortAscending(s) ==
    IF Len(s) = 0 THEN <<>>
    ELSE InsertAsc(s[Len(s)], SortAscending(SubSeq(s, 1, Len(s) - 1)))

\* ascending stable sort, then reversed: descending, but ties come out reversed
SortThenReverse(s) == Reversed(SortAscending(s))

RECURSIVE SortDescStable(_)
SortDescStable(s) ==
    IF Len(s) = 0 THEN <<>>
    ELSE InsertDesc(s[Len(s)], SortDescStable(SubSeq(s, 1, Len(s) - 1)))

SortResults(s) == SortDescStable(s)

\* ------------------------------------------------------------------- state
VARIABLES
    api_key,         \* os.environ has a non-empty POLYGON_API_KEY
    fixed_end_date,  \* self.fixed_end_date: NoneVal or a date string
    weight,          \* self.weight
    market,          \* which data provider answers: "batch", "fetch" or "score"
    entry,           \* "score": calculate_trend_score; "batch": calculate_batch_scores
    tickers,         \* the ticker list of the call (one ticker for "score")
    period,          \* the period argument
    pc,              \* position in the code
    i,               \* number of tickers taken by the for loop so far
    ticker,          \* calculate_trend_score's ticker argument
    end_date,        \* get_stock_data's local "end" (day number)
    data,            \* calculate_trend_score's local "data"
    scores,          \* the component-score locals assigned so far
    ret,             \* calculate_trend_score's return value
    results,         \* calculate_batch_scores' local "results"
    reqs,            \* provider requests issued during the current scoring pass
    outcome,         \* how get_stock_data ended in the current scoring pass
    raised,          \* the exception that escaped the call, or NoneVal
    calls,           \* history: one record per completed calculate_trend_score
    tool,            \* "none": the scorer is called directly; "single" / "batch":
                     \* it is called by the MCP tool of that name
    json_kind,       \* what the batch tool's "tickers" string holds
    response,        \* the tool's return value, or NoneVal
    delays,          \* number of sleep calls made so far
    trend_scorer,    \* the module-level instance: its fixed_end_date and weight
    arg_date,        \* the fixed_end_date argument of the current tool call
    prev_arg         \* the fixed_end_date argument of the tool call before it

vars == <<api_key, fixed_end_date, weight, market, entry, tickers, period, pc, i,
          ticker, end_date, data, scores, ret, results, reqs, outcome, raised, calls,
          tool, json_kind, response, delays, trend_scorer, arg_date, prev_arg>>

scorer_vars == <<fixed_end_date, weight>>
env_vars    == <<api_key, market>>
arg_vars    == <<entry, tickers, period>>
tool_vars   == <<tool, json_kind, response, delays>>
global_vars == <<trend_scorer, arg_date, prev_arg>>

NoScores == [k \in {} |-> 0]
SetScore(name, v) ==
    [k \in DOMAIN scores \cup {name} |-> IF k = name THEN v ELSE scores[k]]

\* datetime.utcnow() as a day number (2024-03-03, a Sunday), and ts / 1000 of the
\* previous-close bar's "t": seconds since the epoch (2024-02-29 05:00 UTC).
UtcToday == 19785
SecPerDay == 86400
PrevCloseSeconds == 19782 * SecPerDay + 18000

\* ------------------------------------------------------ the data provider
(***************************************************************************)
(* A daily-aggregates answer is either a failure or a payload of rows.     *)
(*   "timeout"        requests.get raises (timeout=20 elapsed, no route)   *)
(*   "http_error"     raise_for_status raises (non-200 status)             *)
(*   "bad_json"       r.json() raises (body is not JSON)                   *)
(*   "empty"          "results" is missing or []                           *)
(*   "missing_field"  the rows lack one of o/h/l/c/v/t: KeyError           *)
(*   "rows"           rows that pandas accepts: a payload below            *)
(* A payload is [n, cols, dates, ind]: the number of rows, whether the     *)
(* rows carry a duplicate Close column, whether the last row's timestamp   *)
(* is null, and the indicator values the rows give.  The provider returns  *)
(* at most one bar per calendar day of the requested range.                *)
(***************************************************************************)
Payload(n, cols, dates, ind) == [n |-> n, cols |-> cols, dates |-> dates, ind |-> ind]

\* per-indicator input cases: <<close, ma20, ma50>>, <<macd, signal, prev>>, ...
MaFlat   == <<100, 100, 100>>
MaUp1    == <<110, 101, 100>>
MaDown1  == <<90, 99, 100>>
MaUp3    == <<110, 106, 100>>
MaDown3  == <<90, 94, 100>>
MaCases ==
    {MaFlat, MaUp1, MaDown1, MaUp3, MaDown3,
     <<110, 105, 100>>, <<110, 103, 100>>, <<110, 102, 100>>,
     <<110, 100, 105>>, <<110, 100, 100>>,
     <<90, 95, 100>>, <<90, 97, 100>>, <<90, 98, 100>>,
     <<90, 100, 95>>, <<90, 100, 100>>,
     <<100, 100, 90>>, <<100, 100, 110>>}

MacdFlat  == <<Num(3), Num(3), Num(2)>>
MacdUp1   == <<Num(5), Num(3), Num(5)>>
MacdDown1 == <<Num(-5), Num(-3), Num(-5)>>
MacdUp2   == <<Num(5), Num(3), Num(4)>>
MacdDown2 == <<Num(-5), Num(-3), Num(-4)>>
MacdCases ==
    {MacdFlat, MacdUp1, MacdDown1, MacdUp2, MacdDown2,
     <<Num(5), Num(3), Num(6)>>, <<Num(-1), Num(-3), Num(-2)>>,
     <<Num(0), Num(-1), Num(-1)>>, <<Num(1), Num(3), Num(2)>>,
     <<Num(0), Num(1), Num(1)>>, <<Num(5), Num(3), NaN>>,
     <<NaN, Num(3), Num(2)>>, <<Num(5), NaN, Num(4)>>}

AdxFlat  == <<Num(2000), Num(2500), Num(2000)>>
AdxUp1   == <<Num(3000), Num(2500), Num(2000)>>
AdxDown1 == <<Num(3000), Num(2000), Num(2500)>>
AdxUp2   == <<Num(3001), Num(2500), Num(2000)>>
AdxDown2 == <<Num(3001), Num(2000), Num(2500)>>
AdxCases ==
    {AdxFlat, AdxUp1, AdxDown1, AdxUp2, AdxDown2,
     <<Num(3001), Num(2000), Num(2000)>>, <<Num(2001), Num(2500), Num(2000)>>,
     <<Num(2001), Num(2000), Num(2000)>>, <<Num(1500), Num(2000), Num(2500)>>,
     <<NaN, Num(2500), Num(2000)>>, <<Num(3001), NaN, Num(2000)>>,
     <<Num(3001), Num(2500), NaN>>}

RsiFlat  == Num(5000)
RsiUp1   == Num(6001)
RsiDown1 == Num(3999)
RsiCases ==
    {RsiFlat, RsiUp1, RsiDown1, Num(7001), Num(7000), Num(6000), Num(4000),
     Num(3000), Num(2999), NaN}

ObvFlat  == <<0, 0, 0, 0, 0>>
ObvUp1   == <<0, 1, 2, 3, 4>>
ObvDown1 == <<4, 3, 2, 1, 0>>
ObvCases ==
    {ObvFlat, ObvUp1, ObvDown1, <<0, 5, 0, -5, 0>>, <<1, 0, 0, 0, 1>>, <<0, 0, 3, 0, 0>>}

\* OBV values whose exact slope is zero without all being zero, and the signs
\* the computed slope can have on them
ObvBalanced == {<<1, 0, 0, 0, 1>>, <<5, 5, 5, 5, 5>>, <<0, 2, 5, 4, -1>>}
FitSigns == {-1, 0, 1}

IndOf(ma, macd, adx, rsi, obv) ==
    Ind(ma[1], ma[2], ma[3], macd[1], macd[2], macd[3], adx[1], adx[2], adx[3], rsi, obv)

\* five base series: every scorer neutral, every scorer at +1, at -1, at its
\* maximum, at its minimum
Baselines ==
    { <<MaFlat, MacdFlat, AdxFlat, RsiFlat, ObvFlat>>,
      <<MaUp1, MacdUp1, AdxUp1, RsiUp1, ObvUp1>>,
      <<MaDown1, MacdDown1, AdxDown1, RsiDown1, ObvDown1>>,
      <<MaUp3, MacdUp2, AdxUp2, RsiUp1, ObvUp1>>,
      <<MaDown3, MacdDown2, AdxDown2, RsiDown1, ObvDown1>> }

\* the base series with one indicator's inputs replaced by each of its cases
StarInds ==
    UNION { {IndOf(c, b[2], b[3], b[4], b[5]) : c \in MaCases}
            \cup {IndOf(b[1], c, b[3], b[4], b[5]) : c \in MacdCases}
            \cup {IndOf(b[1], b[2], c, b[4], b[5]) : c \in AdxCases}
            \cup {IndOf(b[1], b[2], b[3], c, b[5]) : c \in RsiCases}
            \cup {IndOf(b[1], b[2], b[3], b[4], c) : c \in ObvCases}
            \cup {WithFit(IndOf(b[1], b[2], b[3], b[4], c), f) :
                      c \in ObvBalanced, f \in FitSigns}
          : b \in Baselines }

NeutralInd == IndOf(MaFlat, MacdFlat, AdxFlat, RsiFlat, ObvFlat)
BullInd    == IndOf(MaUp3, MacdUp2, AdxUp2, RsiUp1, ObvUp1)
BearInd    == IndOf(MaDown3, MacdDown2, AdxDown2, RsiDown1, ObvDown1)

AllFailures == {"timeout", "http_error", "bad_json", "empty", "missing_field"}

\* the provider of the batch runs: few series, so that lists of several
\* tickers stay small
BatchMarket ==
    [ prev |-> {"ok"},
      fails |-> {"timeout"},
      payloads |-> { Payload(50, "ok", "ok", NeutralInd),
                     Payload(51, "ok", "ok", BullInd),
                     Payload(50, "ok", "ok", BearInd),
                     Payload(49, "ok", "ok", BullInd),
                     Payload(50, "dup_close", "ok", NeutralInd),
                     Payload(50, "ok", "null_last", NeutralInd) } ]

\* the provider of the fetch runs: every way a request can end
FetchMarket ==
    [ prev |-> {"ok", "no_ts", "fail"},
      fails |-> AllFailures,
      payloads |-> { Payload(32, "ok", "ok", NeutralInd),
                     Payload(94, "ok", "ok", BullInd),
                     Payload(187, "ok", "ok", BullInd),
                     Payload(366, "ok", "ok", BullInd),
                     Payload(731, "ok", "ok", BullInd),
                     Payload(49, "ok", "ok", BullInd),
                     Payload(50, "ok", "ok", NeutralInd),
                     Payload(51, "ok", "ok", BullInd),
                     Payload(50, "dup_close", "ok", NeutralInd),
                     Payload(50, "ok", "null_last", NeutralInd) } ]

\* the provider of the termination runs: requests time out or succeed
LiveMarket ==
    [ prev |-> {"ok", "timeout"},
      fails |-> {"timeout"},
      payloads |-> { Payload(50, "ok", "ok", NeutralInd),
                     Payload(50, "dup_close", "ok", NeutralInd) } ]

\* the provider of the scoring runs: many series
ScoreMarket ==
    [ prev |-> {"ok"},
      fails |-> {"empty"},
      payloads |-> {Payload(50, "ok", "ok", x) : x \in StarInds}
                   \cup {Payload(n, "ok", "ok", x) : n \in {49, 51}, x \in {NeutralInd, BullInd}}
                   \cup { Payload(50, "dup_close", "ok", NeutralInd),
                          Payload(50, "ok", "null_last", NeutralInd) } ]

\* the answers the provider of this run can give
Provider ==
    CASE market = "batch" -> BatchMarket
      [] market = "fetch" -> FetchMarket
      [] market = "live"  -> LiveMarket
      [] OTHER            -> ScoreMarket

\* -------------------------------------------------------------------- Init
Symbols == { <<"A", "A">>, <<"B", "-", "B">> }
ListsOver(S, n) == UNION { [1..k -> S] : k \in 0..n }
ListsUpTo(n) == ListsOver(Symbols, n)

\* the symbols of the fetch runs: one of them carries two hyphens
FetchSymbols == Symbols \cup { <<"A", "-", "B", "-", "C">> }

GoodDate == DateStr(2024, 3, 1)
EarlierDate == DateStr(2023, 12, 29)
BadDate  == DateStr(2024, 2, 30)

\* str.upper() on the model's alphabet
UpperChar(c) ==
    CASE c = "a" -> "A"
      [] c = "b" -> "B"
      [] OTHER   -> c

Upper(t) == [k \in 1..Len(t) |-> UpperChar(t[k])]

\* a symbol as a tool's caller may spell it: first letter in lower case
LowerChar(c) ==
    CASE c = "A" -> "a"
      [] c = "B" -> "b"
      [] OTHER   -> c

RawSymbol(t) == [k \in 1..Len(t) |-> IF k = 1 THEN LowerChar(t[k]) ELSE t[k]]
RawList(l) == [k \in 1..Len(l) |-> RawSymbol(l[k])]

\* what the batch tool's "tickers" argument can hold: a JSON list, JSON that
\* is not a list, text that is not JSON
JsonKinds == {"list", "not_list", "bad_json"}

\* SP500TrendScorer.__init__: the instance's fields
NewScorer(date) == [fixed_end_date |-> date, weight |-> InitialWeight]

\* no tool call was made before the current one
NoCall == [kind |-> "no_call"]

\* the state after SP500TrendScorer(fixed_end_date) and before the call; for a
\* tool run, the state when the tool is invoked (pc = "tool")
InitWith(lists, periods, fixeds, keys, mkt) ==
    /\ trend_scorer = NewScorer(NoneVal)
    /\ prev_arg = NoCall
    /\ api_key \in keys
    /\ market = mkt
    /\ tool \in {"none", "single", "batch"}
    /\ entry \in {"score", "batch", "scorers"}
    /\ entry = "scorers" => tool = "none"
    /\ tool = "single" => entry = "score"
    /\ tool = "batch" => entry = "batch"
    /\ json_kind \in JsonKinds
    /\ tool # "batch" => json_kind = "list"
    /\ \E d \in fixeds :
          IF tool = "none"
          THEN /\ arg_date = NoneVal
               /\ fixed_end_date = NewScorer(d).fixed_end_date
               /\ weight = NewScorer(d).weight
          ELSE /\ arg_date = d
               /\ fixed_end_date = trend_scorer.fixed_end_date
               /\ weight = trend_scorer.weight
    /\ \E l \in lists :
          /\ entry = "score" => Len(l) = 1
          /\ entry = "scorers" => Len(l) = 0
          /\ json_kind # "list" => Len(l) = 0
          /\ tickers = IF tool = "none" THEN l ELSE RawList(l)
    /\ period \in periods
    /\ pc = IF tool = "none" THEN "start" ELSE "tool"
    /\ i = 0
    /\ ticker = <<>>
    /\ end_date = 0
    /\ data = NoneVal
    /\ scores = NoScores
    /\ ret = NoneVal
    /\ results = <<>>
    /\ reqs = <<>>
    /\ outcome = "none"
    /\ raised = NoneVal
    /\ calls = <<>>
    /\ response = NoneVal
    /\ delays = 0

\* ----------------------------------------------------- calculate_batch_scores
\* results = []; total = len(tickers)
BatchStart ==
    /\ pc = "start" /\ entry = "batch"
    /\ results' = <<>>
    /\ i' = 0
    /\ pc' = "loop"
    /\ UNCHANGED <<scorer_vars, env_vars, global_vars, arg_vars, tool_vars, ticker, end_date, data, scores,
                   ret, reqs, outcome, raised, calls>>

\* the list walked from its end
BatchLoopReversed ==
    /\ pc = "loop"
    /\ IF i < Len(tickers)
       THEN /\ i' = i + 1
            /\ ticker' = tickers[Len(tickers) - i]
            /\ pc' = "get_stock_data"
            /\ data' = NoneVal /\ scores' = NoScores /\ ret' = NoneVal
            /\ reqs' = <<>> /\ outcome' = "none"
       ELSE /\ pc' = "sort"
            /\ UNCHANGED <<i, ticker, data, scores, ret, reqs, outcome>>
    /\ UNCHANGED <<scorer_vars, env_vars, global_vars, arg_vars, tool_vars, end_date,
                   results, raised, calls>>

\* for i, ticker in enumerate(tickers): score_data = self.calculate_trend_score(...)
BatchLoop ==
    /\ pc = "loop"
    /\ IF i < Len(tickers)
       THEN /\ i' = i + 1
            /\ ticker' = tickers[i + 1]
            /\ pc' = "get_stock_data"
            /\ data' = NoneVal /\ scores' = NoScores /\ ret' = NoneVal
            /\ reqs' = <<>> /\ outcome' = "none"
       ELSE /\ pc' = "sort"
            /\ UNCHANGED <<i, ticker, data, scores, ret, reqs, outcome>>
    /\ UNCHANGED <<scorer_vars, env_vars, global_vars, arg_vars, tool_vars, end_date, results, raised, calls>>

\* results.sort(key=lambda x: x.normalized_trend_score, reverse=True); return results
BatchSort ==
    /\ pc = "sort"
    /\ results' = SortResults(results)
    /\ pc' = "done"
    /\ UNCHANGED <<scorer_vars, env_vars, global_vars, arg_vars, tool_vars, i, ticker, end_date, data, scores,
                   ret, reqs, outcome, raised, calls>>

\* a direct call of calculate_trend_score(ticker, period)
ScoreStart ==
    /\ pc = "start" /\ entry = "score"
    /\ i' = 1
    /\ ticker' = tickers[1]
    /\ pc' = "get_stock_data"
    /\ UNCHANGED <<scorer_vars, env_vars, global_vars, arg_vars, tool_vars, end_date, data, scores, ret,
                   results, reqs, outcome, raised, calls>>

\* ------------------------------------------------------------- get_stock_data
\* every value taken for falsy
NeverTruthy(s) == s.kind = "never"

\* truth value of an Optional[str] that is None or a non-empty string
Truthy(s) == ~IsNone(s)

\* lines 123-136: the credential check, the period and the end date
GetStockData ==
    /\ pc = "get_stock_data"
    /\ IF ~api_key
       THEN /\ data' = NoneVal /\ outcome' = "no_key" /\ pc' = "check_data"
            /\ UNCHANGED end_date
       ELSE IF Truthy(fixed_end_date)
       THEN IF ValidDateStr(fixed_end_date)
            THEN /\ end_date' = Strptime(fixed_end_date)
                 /\ pc' = "aggregates"
                 /\ UNCHANGED <<data, outcome>>
            ELSE \* strptime raises ValueError, caught at line 153
                 /\ data' = NoneVal /\ outcome' = "bad_date" /\ pc' = "check_data"
                 /\ UNCHANGED end_date
       ELSE /\ pc' = "latest_trading_date"
            /\ UNCHANGED <<end_date, data, outcome>>
    /\ UNCHANGED <<scorer_vars, env_vars, global_vars, arg_vars, tool_vars, i, ticker, scores, ret, results,
                   reqs, raised, calls>>

\* a request of the log together with how the provider answered it
WithAnswer(req, a) == [answer |-> a] @@ req

\* ------------------------------------------------------- _latest_trading_date
\* requests.get(url, params=params, timeout=15), in seconds
PrevTimeout == 15

PrevRequest(tk) == [kind |-> "prev", tk |-> tk, timeout |-> Num(PrevTimeout)]

\* lines 107-119 with the credential present: the previous-close bar's date, or
\* today's date when the request fails ("fail": an HTTP error, "timeout": the
\* 15 s elapsed) or carries no timestamp ("no_ts")
LatestTradingDateStr(resp) ==
    IF resp = "ok" THEN Strftime(PrevCloseSeconds \div SecPerDay)
    ELSE Strftime(UtcToday)

\* line 134: latest_str = self._latest_trading_date(ticker) or
\*                         self._latest_trading_date("SPY")
\* line 135: end = datetime.strptime(latest_str, "%Y-%m-%d")
LatestTradingDate ==
    /\ pc = "latest_trading_date"
    /\ \E r1 \in Provider.prev, r2 \in Provider.prev :
         LET first  == LatestTradingDateStr(r1)
             second == LatestTradingDateStr(r2)
             useSpy == ~Truthy(first)
             latest_str == IF useSpy THEN second ELSE first
         IN /\ reqs' = IF useSpy
                       THEN reqs \o << WithAnswer(PrevRequest(_normalize_polygon_ticker(ticker)), r1),
                                       WithAnswer(PrevRequest(_normalize_polygon_ticker(<<"S", "P", "Y">>)), r2) >>
                       ELSE Append(reqs, WithAnswer(PrevRequest(_normalize_polygon_ticker(ticker)), r1))
            /\ end_date' = Strptime(latest_str)
    /\ pc' = "aggregates"
    /\ UNCHANGED <<scorer_vars, env_vars, global_vars, arg_vars, tool_vars, i, ticker, data, scores, ret,
                   results, outcome, raised, calls>>

\* ------------------------------------------ get_stock_data, lines 136-155
\* requests.get(url, params=params, timeout=20), in seconds
AggsTimeout == 20

AggsRequest(tk, start, end) ==
    [kind |-> "aggs", tk |-> tk, start |-> start, end |-> end,
     timeout |-> Num(AggsTimeout)]

\* the DataFrame lines 147-151 build from the rows
FrameKeepsEmpty(p, end) ==
    [kind |-> "DataFrame", n |-> 0, cols |-> "ok", last_date |-> NaT, ind |-> NeutralInd]

Frame(p, end) ==
    [kind |-> "DataFrame", n |-> p.n, cols |-> p.cols,
     last_date |-> IF p.dates = "ok" THEN Num(end) ELSE NaT,
     ind |-> p.ind]

\* what get_stock_data returns for an answer of the provider
EmptyAsFrame(kind, p, end) ==
    IF kind = "rows" THEN Frame(p, end)
    ELSE IF kind = "empty" THEN FrameKeepsEmpty(p, end)
    ELSE NoneVal

FetchResult(kind, p, end) ==
    IF kind = "rows" THEN Frame(p, end) ELSE NoneVal

Aggregates ==
    /\ pc = "aggregates"
    /\ LET days  == _period_to_days(period)
           start == end_date - days
           req   == AggsRequest(_normalize_polygon_ticker(ticker),
                                Strftime(start), Strftime(end_date))
       IN \/ \E f \in Provider.fails :
               /\ reqs' = Append(reqs, WithAnswer(req, f))
               /\ outcome' = f
               /\ data' = FetchResult(f, NoneVal, end_date)
          \/ \E p \in Provider.payloads :
               /\ p.n <= days + 1
               /\ reqs' = Append(reqs, WithAnswer(req, "rows"))
               /\ outcome' = "rows"
               /\ data' = FetchResult("rows", p, end_date)
    /\ pc' = "check_data"
    /\ UNCHANGED <<scorer_vars, env_vars, global_vars, arg_vars, tool_vars, i, ticker, end_date, scores, ret,
                   results, raised, calls>>

\* ------------------------------------------------------ calculate_trend_score
\* a fetch that timed out is tried again, without a limit
CheckDataRetriesTimeout ==
    /\ pc = "check_data"
    /\ IF outcome = "timeout"
       THEN /\ pc' = "get_stock_data" /\ reqs' = <<>> /\ outcome' = "none"
            /\ UNCHANGED ret
       ELSE /\ IF IsNone(data) \/ data.n < MinBars
               THEN ret' = NoneVal /\ pc' = "return"
               ELSE UNCHANGED ret /\ pc' = "ma"
            /\ UNCHANGED <<reqs, outcome>>
    /\ UNCHANGED <<scorer_vars, env_vars, global_vars, arg_vars, tool_vars, i, ticker, end_date,
                   data, scores, results, raised, calls>>

\* line 321: if data is None or len(data) < 50: return None
TooShortOffByOne(d) == IsNone(d) \/ d.n <= MinBars

TooShort(d) == IsNone(d) \/ d.n < MinBars

CheckData ==
    /\ pc = "check_data"
    /\ IF TooShort(data)
       THEN ret' = NoneVal /\ pc' = "return"
       ELSE UNCHANGED ret /\ pc' = "ma"
    /\ UNCHANGED <<scorer_vars, env_vars, global_vars, arg_vars, tool_vars, i, ticker, end_date, data, scores,
                   results, reqs, outcome, raised, calls>>

\* line 326; calculate_ma_score has no exception handler
MaStep ==
    /\ pc = "ma"
    /\ IF MaRaises(data)
       THEN /\ raised' = [kind |-> "ValueError", at |-> "calculate_ma_score"]
            /\ pc' = "raised"
            /\ UNCHANGED scores
       ELSE /\ scores' = SetScore("ma_score", calculate_ma_score(data))
            /\ pc' = "macd"
            /\ UNCHANGED raised
    /\ UNCHANGED <<scorer_vars, env_vars, global_vars, arg_vars, tool_vars, i, ticker, end_date, data, ret,
                   results, reqs, outcome, calls>>

ScorerStep(at, name, v, next) ==
    /\ pc = at
    /\ scores' = SetScore(name, v)
    /\ pc' = next
    /\ UNCHANGED <<scorer_vars, env_vars, global_vars, arg_vars, tool_vars, i, ticker, end_date, data, ret,
                   results, reqs, outcome, raised, calls>>

\* lines 327-330
MacdStep == ScorerStep("macd", "macd_score", calculate_macd_score(data), "adx")
AdxStep  == ScorerStep("adx", "adx_score", calculate_adx_score(data), "rsi")
RsiStep  == ScorerStep("rsi", "rsi_score", calculate_rsi_score(data), "obv")
ObvStep  == ScorerStep("obv", "obv_score", calculate_obv_score(data), "aggregate")

\* a running total carried over from the previous result
ScoreTotalCarried ==
    ScoreSum(scores.ma_score, scores.macd_score, scores.adx_score,
             scores.rsi_score, scores.obv_score)
    + (IF Len(results) = 0 THEN 0 ELSE results[Len(results)].ma_score)

ScoreTotal ==
    ScoreSum(scores.ma_score, scores.macd_score, scores.adx_score,
             scores.rsi_score, scores.obv_score)

\* lines 332-349; data.index[-1].strftime raises ValueError on NaT
Aggregate ==
    /\ pc = "aggregate"
    /\ IF data.last_date = NaT
       THEN /\ raised' = [kind |-> "ValueError", at |-> "strftime"]
            /\ pc' = "raised"
            /\ UNCHANGED ret
       ELSE LET weighted_raw_score == WeightedRaw(ScoreTotal, weight)
                normalized_score   == Clamp(Normalize(weighted_raw_score))
            IN /\ ret' = TrendScoreResult(ticker, Strftime(data.last_date.v),
                                          RoundNormalized(normalized_score),
                                          RoundWeighted(weighted_raw_score),
                                          scores.ma_score, scores.macd_score,
                                          scores.adx_score, scores.rsi_score,
                                          scores.obv_score)
               /\ pc' = "return"
               /\ UNCHANGED raised
    /\ UNCHANGED <<scorer_vars, env_vars, global_vars, arg_vars, tool_vars, i, ticker, end_date, data, scores,
                   results, reqs, outcome, calls>>

CallRecord ==
    [ticker |-> ticker, period |-> period, fixed_end_date |-> fixed_end_date,
     data |-> data, outcome |-> outcome, ret |-> ret]

\* calculate_trend_score returns; in a batch, lines 364-365:
\*   if score_data: results.append(score_data)
Return ==
    /\ pc = "return"
    /\ calls' = Append(calls, CallRecord)
    /\ IF entry = "batch"
       THEN /\ results' = IF IsNone(ret) THEN results ELSE Append(results, ret)
            /\ pc' = "loop"
       ELSE /\ UNCHANGED results
            /\ pc' = "done"
    /\ UNCHANGED <<scorer_vars, env_vars, global_vars, arg_vars, tool_vars, i, ticker, end_date, data, scores,
                   ret, reqs, outcome, raised>>

\* ------------------------------------------------------------ the MCP tools
\* the module-level instance is given the date and used for the call
SingleToolStartSetsGlobal ==
    /\ pc = "tool" /\ tool = "single"
    /\ trend_scorer' = [trend_scorer EXCEPT !.fixed_end_date = arg_date]
    /\ fixed_end_date' = arg_date
    /\ weight' = trend_scorer.weight
    /\ tickers' = <<Upper(tickers[1])>>
    /\ pc' = "start"
    /\ UNCHANGED <<env_vars, arg_date, prev_arg, entry, period, tool_vars, i, ticker,
                   end_date, data, scores, ret, results, reqs, outcome, raised, calls>>

\* tool_registry.py, calculate_single_trend_score, lines 192-194:
\*   scorer = trend_scorer.__class__(fixed_end_date=fixed_end_date)
\*   result = scorer.calculate_trend_score(ticker.upper(), period)
SingleToolStart ==
    /\ pc = "tool" /\ tool = "single"
    /\ fixed_end_date' = NewScorer(arg_date).fixed_end_date
    /\ weight' = NewScorer(arg_date).weight
    /\ tickers' = <<Upper(tickers[1])>>
    /\ pc' = "start"
    /\ UNCHANGED <<env_vars, global_vars, entry, period, tool_vars, i, ticker,
                   end_date, data, scores, ret, results, reqs, outcome, raised, calls>>

\* "if not result": a TrendScoreResult defines neither __bool__ nor __len__, so
\* only None is falsy
ZeroScoreIsFalsy(r) ==
    IF IsNone(r) THEN TRUE ELSE r.normalized_trend_score = 0

NotResult(r) == IsNone(r)

ErrorPayload(what, period_) ==
    [kind |-> "error", about |-> what, period |-> period_]

\* result.model_dump()
ModelDump(r) == [r EXCEPT !.kind = "dict"]

\* lines 195-202
SingleToolRespond ==
    /\ pc = "done" /\ tool = "single"
    /\ response' = IF NotResult(ret)
                   THEN ErrorPayload(tickers[1], period)
                   ELSE ModelDump(ret)
    /\ pc' = "responded"
    /\ UNCHANGED <<scorer_vars, env_vars, global_vars, arg_vars, tool, json_kind, delays, i, ticker,
                   end_date, data, scores, ret, results, reqs, outcome, raised, calls>>

\* calculate_batch_trend_scores, lines 222-235: json.loads, the list check, the
\* scorer and the upper-casing of the list
BatchToolStart ==
    /\ pc = "tool" /\ tool = "batch"
    /\ IF json_kind = "list"
       THEN /\ fixed_end_date' = NewScorer(arg_date).fixed_end_date
            /\ weight' = NewScorer(arg_date).weight
            /\ tickers' = [k \in 1..Len(tickers) |-> Upper(tickers[k])]
            /\ pc' = "start"
            /\ UNCHANGED response
       ELSE /\ response' = [kind |-> "error", about |-> json_kind]
            /\ pc' = "responded"
            /\ UNCHANGED <<fixed_end_date, weight, tickers>>
    /\ UNCHANGED <<env_vars, global_vars, entry, period, tool, json_kind, delays,
                   i, ticker, end_date, data, scores, ret, results, reqs, outcome,
                   raised, calls>>

RECURSIVE SumScores(_)
SumScores(rs) ==
    IF Len(rs) = 0 THEN 0
    ELSE rs[1].normalized_trend_score + SumScores(Tail(rs))

ScoresOf(rs) == {rs[k].normalized_trend_score : k \in DOMAIN rs}
MaxOf(S) == CHOOSE x \in S : \A y \in S : y <= x
MinOf(S) == CHOOSE x \in S : \A y \in S : x <= y

\* the quotient a / b of two integers, kept exact
Quotient(a, b) == [num |-> a, den |-> b]

\* the mean taken over the tickers asked for instead of the results returned
SummaryOverRequested(rs) ==
    [total_processed |-> Len(tickers),
     highest_score |-> MaxOf(ScoresOf(rs)),
     lowest_score |-> MinOf(ScoresOf(rs)),
     average_score |-> Quotient(SumScores(rs), Len(tickers))]

\* lines 246-251; scores in hundredths
Summary(rs) ==
    [total_processed |-> Len(rs),
     highest_score |-> MaxOf(ScoresOf(rs)),
     lowest_score |-> MinOf(ScoresOf(rs)),
     average_score |-> Quotient(SumScores(rs), Len(rs))]

\* lines 237-252; "if not results": the empty list is falsy
BatchToolRespond ==
    /\ pc = "done" /\ tool = "batch"
    /\ response' = IF Len(results) = 0
                   THEN ErrorPayload(tickers, period)
                   ELSE [kind |-> "batch",
                         results |-> [k \in 1..Len(results) |-> ModelDump(results[k])],
                         summary |-> Summary(results)]
    /\ pc' = "responded"
    /\ UNCHANGED <<scorer_vars, env_vars, global_vars, arg_vars, tool, json_kind, delays, i, ticker,
                   end_date, data, scores, ret, results, reqs, outcome, raised, calls>>

\* the fixed_end_date arguments of a further tool call
ToolDates == {NoneVal, GoodDate, EarlierDate}

\* the single-ticker tool is called again, with any fixed_end_date: the locals of
\* the call before are gone, the module-level instance is what it was
SingleToolAgain ==
    /\ pc = "responded" /\ tool = "single"
    /\ arg_date' \in ToolDates
    /\ prev_arg' = arg_date
    /\ fixed_end_date' = trend_scorer.fixed_end_date
    /\ weight' = trend_scorer.weight
    /\ pc' = "tool"
    /\ i' = 0 /\ ticker' = <<>> /\ end_date' = 0 /\ data' = NoneVal
    /\ scores' = NoScores /\ ret' = NoneVal /\ results' = <<>> /\ reqs' = <<>>
    /\ outcome' = "none" /\ calls' = <<>> /\ response' = NoneVal
    /\ UNCHANGED <<env_vars, arg_vars, tool, json_kind, delays, trend_scorer, raised>>

\* ------------------------------------------- the five scorers, called directly
\* lengths around each scorer's minimum: 10, 14, 14 + 14, 34, 50
DirectLengths == {0, 9, 10, 13, 14, 27, 28, 33, 34, 49, 50}

\* frames of those lengths whose indicators all read bullish; the shortest
\* ones also with the duplicated Close column that makes data['Close'] a frame
DirectFrames ==
    {Frame(Payload(n, "ok", "ok", BullInd), UtcToday) : n \in DirectLengths}
        \cup {Frame(Payload(n, "dup_close", "ok", BullInd), UtcToday) : n \in {0, 9}}

\* calculate_ma_score(data), ..., calculate_obv_score(data) on one frame
ScorersDirect ==
    /\ pc = "start" /\ entry = "scorers"
    /\ \E d \in DirectFrames :
          /\ data' = d
          /\ scores' = [ma_score   |-> calculate_ma_score(d),
                         macd_score |-> calculate_macd_score(d),
                         adx_score  |-> calculate_adx_score(d),
                         rsi_score  |-> calculate_rsi_score(d),
                         obv_score  |-> calculate_obv_score(d)]
    /\ pc' = "done"
    /\ UNCHANGED <<scorer_vars, env_vars, global_vars, arg_vars, tool_vars, i, ticker,
                   end_date, ret, results, reqs, outcome, raised, calls>>

Next ==
    \/ ScorersDirect
    \/ SingleToolAgain
    \/ SingleToolStart
    \/ BatchToolStart
    \/ SingleToolRespond
    \/ BatchToolRespond
    \/ BatchStart
    \/ BatchLoop
    \/ BatchSort
    \/ ScoreStart
    \/ GetStockData
    \/ LatestTradingDate
    \/ Aggregates
    \/ CheckData
    \/ MaStep
    \/ MacdStep
    \/ AdxStep
    \/ RsiStep
    \/ ObvStep
    \/ Aggregate
    \/ Return

AllPeriods == {"1mo", "3mo", "6mo", "1y", "2y", "5d", ""}

\* batch runs: ticker lists of up to MaxBatch symbols
Init == InitWith(ListsUpTo(MaxBatch), {"6mo"}, {NoneVal, GoodDate}, {TRUE}, "batch")
Spec == Init /\ [][Next]_vars

\* fetch runs: one ticker, every period, end-date policy and provider answer
InitFetch == InitWith(ListsOver(FetchSymbols, 1), AllPeriods, {NoneVal, GoodDate, BadDate},
                      BOOLEAN, "fetch")
SpecFetch == InitFetch /\ [][Next]_vars

\* termination runs: batches under a provider whose requests may time out; the
\* code is one sequential thread, so a step that can be taken is taken
InitLive == InitWith(ListsUpTo(MaxBatch), {"6mo"}, {NoneVal, GoodDate}, {TRUE}, "live")
SpecLive == InitLive /\ [][Next]_vars /\ WF_vars(Next)

\* scoring runs: one ticker, many price series
InitScore == InitWith(ListsUpTo(1), {"6mo"}, {NoneVal, GoodDate}, {TRUE}, "score")
SpecScore == InitScore /\ [][Next]_vars

\* ================================================================== claims
Returned == pc = "return"
Produced == Returned /\ ~IsNone(ret)

InRanges(r) ==
    /\ r.ma_score \in -3..3
    /\ r.macd_score \in -2..2
    /\ r.adx_score \in -2..2
    /\ r.rsi_score \in -1..1
    /\ r.obv_score \in -1..1
    /\ r.normalized_trend_score \in 0..10000

\* a price series as the data model defines it: one Close column, every bar dated
WellFormed(d) == d.cols = "ok" /\ d.last_date # NaT

\* calculate_trend_score has ended, by returning or by raising
CallEnded == pc \in {"return", "raised"}

\* C1: for every price series with at least 50 bars calculate_trend_score returns
\* a result whose component scores lie in their documented ranges, MA in [-3,3],
\* MACD in [-2,2], ADX in [-2,2], RSI in [-1,1], OBV in [-1,1], and whose
\* normalized_trend_score lies in [0,100] (0..10000 hundredths); so does every
\* result a batch holds.
C1_ScoresInRange ==
    /\ CallEnded /\ ~IsNone(data) /\ WellFormed(data) /\ data.n >= 50
          => Produced /\ InRanges(ret)
    /\ Produced => InRanges(ret)
    /\ \A k \in DOMAIN results : InRanges(results[k])

\* a result from a 50-bar series with the MA scorer at its upper limit
C1_Witness == Produced /\ data.n = 50 /\ ret.ma_score = 3

AllEqual(r) ==
    /\ r.ma_score = r.macd_score
    /\ r.macd_score = r.adx_score
    /\ r.adx_score = r.rsi_score
    /\ r.rsi_score = r.obv_score

SumOf(r) == r.ma_score + r.macd_score + r.adx_score + r.rsi_score + r.obv_score

\* C2 as stated: whenever the five component scores of a result are all equal
\* to one another, normalized_trend_score is exactly 50.00.
C2_AllEqualGivesFifty ==
    Produced /\ AllEqual(ret) => ret.normalized_trend_score = 5000

\* C2 as amended: whenever the five component scores of a result sum to zero
\* (in particular when all five are zero), normalized_trend_score is exactly
\* 50.00; five equal non-zero scores give another value.
C2_ZeroSumGivesFifty ==
    /\ Produced /\ SumOf(ret) = 0 => ret.normalized_trend_score = 5000
    /\ Produced /\ AllEqual(ret) /\ ret.ma_score # 0 => ret.normalized_trend_score # 5000

\* a result whose five scores are all zero
C2_Witness ==
    /\ Produced /\ AllEqual(ret) /\ ret.ma_score = 0
    /\ ret.normalized_trend_score = 5000

IsMaxBullish(r) ==
    /\ r.ma_score = 3 /\ r.macd_score = 2 /\ r.adx_score = 2
    /\ r.rsi_score = 1 /\ r.obv_score = 1

IsMaxBearish(r) ==
    /\ r.ma_score = -3 /\ r.macd_score = -2 /\ r.adx_score = -2
    /\ r.rsi_score = -1 /\ r.obv_score = -1

\* C3: the component vector (3, 2, 2, 1, 1) gives weighted_raw_score 2.1 (2100
\* thousandths) and normalized_trend_score 100.00; the vector (-3, -2, -2, -1, -1)
\* gives normalized_trend_score 0.00.
C3_ExtremesMapToEndpoints ==
    \A k \in DOMAIN results :
        /\ IsMaxBullish(results[k]) =>
               /\ results[k].weighted_raw_score = 2100
               /\ results[k].normalized_trend_score = 10000
        /\ IsMaxBearish(results[k]) => results[k].normalized_trend_score = 0

\* a finished batch that scored both extreme vectors
C3_Witness ==
    /\ pc = "done"
    /\ \E a, b \in DOMAIN results :
          /\ IsMaxBullish(results[a]) /\ results[a].normalized_trend_score = 10000
          /\ IsMaxBearish(results[b]) /\ results[b].normalized_trend_score = 0

\* the non-null return values of the completed calls, in call order
Survivors ==
    LET kept == SelectSeq(calls, LAMBDA c : ~IsNone(c.ret))
    IN [k \in 1..Len(kept) |-> kept[k].ret]

WithScore(s, v) == SelectSeq(s, LAMBDA r : r.normalized_trend_score = v)

BatchDone == pc = "done" /\ entry = "batch"

\* C4: when calculate_batch_scores returns, the results are in descending order
\* of normalized_trend_score, the calls were made in input order, and for every
\* score value the results with that score are the surviving results with that
\* score in the order of their tickers in the input list.
C4_RankedDescendingStable ==
    BatchDone =>
        /\ \A k \in 1..(Len(results) - 1) :
              results[k].normalized_trend_score >= results[k + 1].normalized_trend_score
        /\ Len(calls) = Len(tickers)
        /\ \A k \in DOMAIN calls : calls[k].ticker = tickers[k]
        /\ \A k \in DOMAIN results :
              LET v == results[k].normalized_trend_score
              IN WithScore(results, v) = WithScore(Survivors, v)
        /\ Len(results) = Len(Survivors)

\* a batch of three whose ranking moved a later ticker to the front and kept
\* two equal scores of different tickers in input order
C4_Witness ==
    /\ BatchDone /\ Len(results) = 3
    /\ results # Survivors
    /\ \E k \in 1..2 :
          /\ results[k].normalized_trend_score = results[k + 1].normalized_trend_score
          /\ results[k].ticker # results[k + 1].ticker

\* C5: two completed calls of calculate_trend_score with the same ticker, period
\* and fixed_end_date for which the provider returned the same data have the
\* same return value.
C5_SameInputsSameResult ==
    \A a, b \in DOMAIN calls :
        ( /\ calls[a].ticker = calls[b].ticker
          /\ calls[a].period = calls[b].period
          /\ calls[a].fixed_end_date = calls[b].fixed_end_date
          /\ calls[a].data = calls[b].data )
        => calls[a].ret = calls[b].ret

\* the same ticker scored twice in one batch from the same data, after another
\* ticker's result was produced in between
C5_Witness ==
    /\ Len(calls) = 3
    /\ calls[1].ticker = calls[3].ticker /\ calls[1].ticker # calls[2].ticker
    /\ calls[1].data = calls[3].data
    /\ ~IsNone(calls[1].ret) /\ ~IsNone(calls[2].ret) /\ calls[1].ret = calls[3].ret
    /\ calls[2].ret.ma_score # 0

\* C6: calculate_trend_score returns None when the fetched series is unavailable
\* or has fewer than 50 bars (49 bars give None), and returns a result when the
\* price series has 50 bars or more (50 bars give a result).
C6_FiftyBarFloor ==
    CallEnded =>
        /\ (IsNone(data) => Returned /\ IsNone(ret))
        /\ (~IsNone(data) /\ data.n <= 49 => Returned /\ IsNone(ret))
        /\ (~IsNone(data) /\ WellFormed(data) /\ data.n >= 50 => Returned /\ ~IsNone(ret))
        /\ (Returned /\ ~IsNone(ret) => data.n >= 50)

\* a series of exactly 50 bars was scored
C6_Witness == Returned /\ ~IsNone(data) /\ data.n = 50 /\ ~IsNone(ret)

\* C7 as stated: the RSI scorer returns 0 when the latest RSI is exactly 70.0
\* and -1 for RSI = 70.01.
C7_Rsi70GivesZero ==
    /\ Produced /\ data.ind.rsi = Num(7000) => ret.rsi_score = 0
    /\ Produced /\ data.ind.rsi = Num(7001) => ret.rsi_score = -1

\* C7 as amended: the RSI scorer returns +1 when the latest RSI is exactly 70.0
\* (70.0 lies in the bucket 60 < RSI <= 70; only a value strictly greater than
\* 70 yields -1) and -1 for RSI = 70.01.
C7_Rsi70GivesPlusOne ==
    /\ Produced /\ data.ind.rsi = Num(7000) => ret.rsi_score = 1
    /\ Produced /\ data.ind.rsi = Num(7001) => ret.rsi_score = -1

\* a result scored from a series whose latest RSI is exactly 70.0
C7_Witness == Produced /\ data.ind.rsi = Num(7000) /\ ret.rsi_score = 1

Scorable(c) == ~IsNone(c.data) /\ c.data.n >= 50

\* C8: in calculate_batch_scores no exception escapes the call, every ticker of
\* the list is processed, and the returned list holds exactly the tickers that
\* were scorable.
C8_BatchAbsorbsFailures ==
    entry = "batch" =>
        /\ IsNone(raised)
        /\ pc = "done" =>
              /\ Len(calls) = Len(tickers)
              /\ Len(results) = Cardinality({k \in DOMAIN calls : Scorable(calls[k])})

FetchReturned == pc = "check_data"

AggsRequests == {k \in DOMAIN reqs : reqs[k].kind = "aggs"}

ExpectedDays ==
    CASE period = "1mo" -> 31
      [] period = "3mo" -> 93
      [] period = "6mo" -> 186
      [] period = "1y"  -> 365
      [] period = "2y"  -> 730
      [] OTHER          -> 186

\* C10: the period maps to 31 / 93 / 186 / 365 / 730 lookback days, every other
\* period value maps to 186 without an error, and the start date of the requested
\* range is the end date minus that number of days.
C10_PeriodLookback ==
    /\ \A k \in AggsRequests :
          /\ ValidDateStr(reqs[k].start) /\ ValidDateStr(reqs[k].end)
          /\ Strptime(reqs[k].end) - Strptime(reqs[k].start) = ExpectedDays
          /\ reqs[k].end = Strftime(end_date)
    /\ pc = "aggregates" => IsNone(raised)

\* a range request was issued for an unrecognized period
C10_Witness ==
    /\ period = "5d"
    /\ \E k \in AggsRequests :
          /\ reqs[k].end = GoodDate
          /\ reqs[k].start = DateStr(2023, 8, 28)

ReferenceTicker == <<"S", "P", "Y">>

\* the end date was resolved without a fixed_end_date and is the current date
CurrentDateUsed ==
    /\ pc \in {"aggregates", "check_data"}
    /\ IsNone(fixed_end_date) /\ Len(reqs) > 0
    /\ end_date = UtcToday

\* C11: without a fixed_end_date the end date falls back from the ticker's
\* latest session to the reference ticker's (SPY) and only then to the current
\* date: whenever the current date is used as the end date, a previous-close
\* request for SPY was made after the one for the ticker.
C11_ReferenceTickerBeforeToday ==
    CurrentDateUsed =>
        \E k \in DOMAIN reqs :
            /\ k > 1
            /\ reqs[k].kind = "prev" /\ reqs[k].tk = ReferenceTicker

\* C12: a scoring pass issues at most two provider requests: a previous-close
\* request, first and only when no fixed_end_date is set, then one
\* daily-aggregates request, last; with a fixed_end_date the only request is the
\* aggregates request and its range ends on that date; a pass that reaches the
\* provider (credential present, end date resolved) makes exactly one
\* aggregates request.
C12_RequestOrder ==
    /\ Len(reqs) <= 2
    /\ \A k \in DOMAIN reqs :
          reqs[k].kind = "prev" => IsNone(fixed_end_date) /\ k = 1
    /\ Cardinality(AggsRequests) <= 1
    /\ \A k \in AggsRequests :
          /\ k = Len(reqs)
          /\ IsNone(fixed_end_date) => k = 2
          /\ ~IsNone(fixed_end_date) => k = 1 /\ reqs[k].end = fixed_end_date
    /\ ( /\ pc = "check_data" /\ api_key
         /\ (IsNone(fixed_end_date) \/ ValidDateStr(fixed_end_date)) )
          => Cardinality(AggsRequests) = 1

\* a pass without fixed_end_date made both requests, in order
C12_Witness ==
    /\ pc = "check_data" /\ IsNone(fixed_end_date)
    /\ Len(reqs) = 2 /\ reqs[1].kind = "prev" /\ reqs[2].kind = "aggs"

\* C13: a delay is imposed before each external data fetch: whenever provider
\* requests have been issued, at least as many delay steps have been taken.
C13_DelayBeforeEachFetch ==
    Len(reqs) > 0 => delays > 0

\* C14: every provider request carries the ticker of the scoring pass with each
\* hyphen rewritten to a dot, and no request carries a hyphen.
C14_RequestsUseNormalizedTicker ==
    \A k \in DOMAIN reqs :
        /\ Len(reqs[k].tk) = Len(ticker)
        /\ \A j \in 1..Len(ticker) :
              /\ reqs[k].tk[j] # "-"
              /\ reqs[k].tk[j] = IF ticker[j] = "-" THEN "." ELSE ticker[j]

\* both requests of a pass for a symbol with two hyphens
C14_Witness ==
    /\ Len(reqs) = 2
    /\ ticker = <<"A", "-", "B", "-", "C">>
    /\ \A k \in DOMAIN reqs : reqs[k].tk = <<"A", ".", "B", ".", "C">>

Scorers ==
    {"calculate_ma_score", "calculate_macd_score", "calculate_adx_score",
     "calculate_rsi_score", "calculate_obv_score"}

\* C15: an exception raised inside one of the five scorers never leaves it: no
\* exception raised in a scorer escapes calculate_trend_score.
C15_ScorersNeverPropagate ==
    ~IsNone(raised) => raised.at \notin Scorers

Responded == pc = "responded"

IsErrorPayload(r) ==
    /\ r.kind = "error"
    /\ DOMAIN r \cap {"results", "summary", "normalized_trend_score"} = {}

\* C16: the batch tool returns an error payload, without results and without
\* summary, exactly when no ticker survived; the single-ticker tool returns an
\* error payload exactly when calculate_trend_score returned None; a result whose
\* normalized_trend_score is 0.00 is returned as an ordinary result.
C16_NoneScorableIsDistinct ==
    Responded =>
        /\ tool = "batch" =>
              /\ response.kind = "error" <=> Len(Survivors) = 0
              /\ response.kind = "error" => IsErrorPayload(response)
              /\ response.kind # "error" =>
                    /\ response.kind = "batch"
                    /\ Len(response.results) = Len(Survivors)
                    /\ \A k \in DOMAIN Survivors :
                          \E j \in DOMAIN response.results :
                              /\ response.results[j].ticker = Survivors[k].ticker
                              /\ response.results[j].normalized_trend_score
                                    = Survivors[k].normalized_trend_score
        /\ tool = "single" =>
              /\ Len(calls) = 1
              /\ response.kind = "error" <=> IsNone(calls[1].ret)
              /\ response.kind = "error" => IsErrorPayload(response)
              /\ response.kind # "error" =>
                    /\ response.kind = "dict"
                    /\ response.ticker = calls[1].ret.ticker
                    /\ response.normalized_trend_score
                          = calls[1].ret.normalized_trend_score

\* the single-ticker tool returned a result whose score is 0.00
C16_Witness ==
    /\ Responded /\ tool = "single"
    /\ response.kind = "dict" /\ response.normalized_trend_score = 0

\* C17: the summary of the batch tool is taken over the returned results only:
\* total_processed is their number, highest_score their maximum, lowest_score
\* their minimum, average_score their sum divided by their number, and
\* highest_score / lowest_score are the scores of the first / last result.
C17_SummaryOverSurvivors ==
    Responded /\ tool = "batch" /\ response.kind = "batch" =>
        LET rs == response.results
            sm == response.summary
            sc == [k \in DOMAIN Survivors |-> Survivors[k].normalized_trend_score]
        IN /\ sm.total_processed = Len(rs)
           /\ sm.total_processed = Len(Survivors)
           /\ \E k \in DOMAIN sc : sc[k] = sm.highest_score
           /\ \A k \in DOMAIN sc : sc[k] <= sm.highest_score
           /\ \E k \in DOMAIN sc : sc[k] = sm.lowest_score
           /\ \A k \in DOMAIN sc : sc[k] >= sm.lowest_score
           /\ sm.average_score.den = Len(Survivors)
           /\ sm.average_score.num = SumScores(Survivors)
           /\ sm.highest_score = rs[1].normalized_trend_score
           /\ sm.lowest_score = rs[Len(rs)].normalized_trend_score

\* three tickers asked for, two returned with different scores
C17_Witness ==
    /\ Responded /\ tool = "batch" /\ response.kind = "batch"
    /\ Len(tickers) = 3 /\ response.summary.total_processed = 2
    /\ response.summary.highest_score > response.summary.lowest_score

TimedOut(kind) == \E k \in DOMAIN reqs : reqs[k].kind = kind /\ reqs[k].answer = "timeout"

BoundedTimeouts ==
    \A k \in DOMAIN reqs :
        reqs[k].timeout.kind = "num" /\ reqs[k].timeout.v \in 1..20

\* the call has ended: the scorer returned or raised, the tool responded
Terminated ==
    \/ pc \in {"raised", "responded"}
    \/ pc = "done" /\ tool = "none"

StoppedEarly ==
    /\ entry = "batch"
    /\ pc \in {"done", "raised", "responded"}
    /\ Len(calls) < Len(tickers)

\* C19: when a batch stops before all tickers are processed, the results scored
\* so far are returned, ranked, instead of being discarded.
C19_EarlyStopFlushesPartial ==
    StoppedEarly /\ Len(results) > 0 =>
        /\ pc # "raised"
        /\ results = SortResults(Survivors)

\* the MA ladder as specified, P the last close, S and L the 20-bar
\* and 50-bar averages
LadderOf(P, S, L) ==
    IF P > S /\ S > L
    THEN (IF 100 * (S - L) > 5 * L THEN 3
          ELSE IF 100 * (S - L) > 2 * L THEN 2 ELSE 1)
    ELSE IF P > S THEN 1
    ELSE IF P < S /\ S < L
    THEN (IF 100 * (L - S) > 5 * L THEN -3
          ELSE IF 100 * (L - S) > 2 * L THEN -2 ELSE -1)
    ELSE IF P < S THEN -1
    ELSE 0

\* C20: the MA score of a result follows the ladder: P > S > L gives 3, 2 or 1
\* as (S-L)/L is above 0.05, above 0.02 or not; P > S without S > L gives 1;
\* P < S < L gives -3, -2 or -1 as (L-S)/L is above 0.05, above 0.02 or not;
\* P < S without S < L gives -1; a ratio of exactly 0.05 gives 2 (or -2) and of
\* exactly 0.02 gives 1 (or -1).
C20_MaLadder ==
    Produced =>
        LET P == data.ind.close
            S == data.ind.ma20
            L == data.ind.ma50
        IN /\ ret.ma_score = LadderOf(P, S, L)
           /\ P > S /\ S > L /\ 100 * (S - L) = 5 * L => ret.ma_score = 2
           /\ P > S /\ S > L /\ 100 * (S - L) = 2 * L => ret.ma_score = 1
           /\ P < S /\ S < L /\ 100 * (L - S) = 5 * L => ret.ma_score = -2
           /\ P < S /\ S < L /\ 100 * (L - S) = 2 * L => ret.ma_score = -1
           /\ P > S /\ ~(S > L) => ret.ma_score = 1
           /\ P < S /\ ~(S < L) => ret.ma_score = -1

\* a result from a series whose averages differ by exactly 5 percent
C20_Witness ==
    /\ Produced
    /\ data.ind.close = 110 /\ data.ind.ma20 = 105 /\ data.ind.ma50 = 100
    /\ ret.ma_score = 2

SignOf(x) == IF x > 0 THEN 1 ELSE IF x < 0 THEN -1 ELSE 0

C22_MacdTable ==
    Produced =>
        LET m == data.ind.macd
            g == data.ind.signal
            q == data.ind.prev_macd
            rose == q.kind = "num" /\ m.v > q.v
            fell == q.kind = "num" /\ m.v < q.v
        IN IF m.kind # "num" \/ g.kind # "num" THEN ret.macd_score = 0
           ELSE /\ m.v > g.v => ret.macd_score = IF m.v > 0 /\ rose THEN 2 ELSE 1
                /\ m.v < g.v => ret.macd_score = IF m.v < 0 /\ fell THEN -2 ELSE -1
                /\ m.v = g.v => ret.macd_score = 0

\* MACD above the signal line and positive, but unchanged from the prior bar
C22_Witness ==
    /\ Produced
    /\ data.ind.macd = Num(5) /\ data.ind.signal = Num(3)
    /\ data.ind.prev_macd = Num(5)
    /\ ret.macd_score = 1

\* C23: ADX > 30 scores +2 when +DI > -DI and -2 otherwise (also for equal
\* +DI and -DI); 20 < ADX <= 30 scores +1 when +DI > -DI and -1 otherwise;
\* ADX <= 20 scores 0; a NaN latest ADX, +DI or -DI scores 0.
C23_AdxTable ==
    Produced =>
        LET a == data.ind.adx
            u == data.ind.plus_di
            w == data.ind.minus_di
        IN IF a.kind # "num" \/ u.kind # "num" \/ w.kind # "num"
           THEN ret.adx_score = 0
           ELSE /\ a.v > 3000 => ret.adx_score = IF u.v > w.v THEN 2 ELSE -2
                /\ a.v > 2000 /\ a.v <= 3000 =>
                      ret.adx_score = IF u.v > w.v THEN 1 ELSE -1
                /\ a.v <= 2000 => ret.adx_score = 0

\* a strong trend whose directional indicators are equal
C23_Witness ==
    /\ Produced
    /\ data.ind.adx = Num(3001) /\ data.ind.plus_di = data.ind.minus_di
    /\ ret.adx_score = -2

\* C24: RSI > 70 scores -1; 60 < RSI <= 70 scores +1; RSI < 30 scores +1;
\* 30 <= RSI < 40 scores -1; 40 <= RSI <= 60 and a NaN latest RSI score 0.
C24_RsiTable ==
    Produced =>
        LET r == data.ind.rsi
        IN IF r.kind # "num" THEN ret.rsi_score = 0
           ELSE /\ r.v > 7000 => ret.rsi_score = -1
                /\ r.v > 6000 /\ r.v <= 7000 => ret.rsi_score = 1
                /\ r.v < 3000 => ret.rsi_score = 1
                /\ r.v >= 3000 /\ r.v < 4000 => ret.rsi_score = -1
                /\ r.v >= 4000 /\ r.v <= 6000 => ret.rsi_score = 0

\* an oversold series (RSI 29.99) scored +1
C24_Witness == Produced /\ data.ind.rsi = Num(2999) /\ ret.rsi_score = 1

\* C25: the OBV score is the sign of the least-squares slope over the last five
\* OBV values y0..y4, the sign of -2*y0 - y1 + y3 + 2*y4: +1, -1 or 0.
C25_ObvSlopeSign ==
    Produced =>
        LET y == data.ind.obv
        IN ret.obv_score = SignOf(-2 * y[1] - y[2] + y[4] + 2 * y[5])

\* C26: a scorer called on a series shorter than its minimum length (MA 50,
\* MACD 34, ADX 28, RSI 14, OBV 10) returns 0 and does not raise; a produced
\* result always comes from a series of at least 50 bars, so none of these
\* guards decided any of its components.
C26_ShortSeriesNeutral ==
    /\ entry = "scorers" /\ pc = "done" =>
          /\ IsNone(raised) /\ ~MaRaises(data)
          /\ data.n < 50 => scores.ma_score = 0
          /\ data.n < 34 => scores.macd_score = 0
          /\ data.n < 28 => scores.adx_score = 0
          /\ data.n < 14 => scores.rsi_score = 0
          /\ data.n < 10 => scores.obv_score = 0
    /\ pc \in {"ma", "macd", "adx", "rsi", "obv", "aggregate"} => data.n >= 50
    /\ Produced => data.n >= 50

C26_Witness ==
    /\ entry = "scorers" /\ pc = "done" /\ data.n = 33
    /\ scores.ma_score = 0 /\ scores.macd_score = 0 /\ scores.adx_score # 0

\* the positions inside one calculate_trend_score call
InPass == pc \notin {"tool", "start", "loop", "sort", "done", "responded"}

\* C27: calculate_batch_scores takes the tickers one at a time, in input order,
\* each position once: the pass in progress is the one for position i, every
\* earlier position has a completed pass and no later one has begun, all
\* requests in flight belong to the pass in progress, and the ranking step is
\* reached only when every position has a completed pass.
C27_OneAtATimeInOrder ==
    entry = "batch" =>
        /\ Len(calls) <= Len(tickers)
        /\ \A k \in DOMAIN calls : calls[k].ticker = tickers[k]
        /\ InPass =>
              /\ i \in 1..Len(tickers) /\ Len(calls) = i - 1
              /\ ticker = tickers[i]
              /\ \A k \in DOMAIN reqs : reqs[k].tk = _normalize_polygon_ticker(ticker)
        /\ pc = "loop" => i = Len(calls) /\ Len(reqs) <= 2
        /\ pc = "sort" => i = Len(tickers) /\ Len(calls) = Len(tickers)

\* the third pass of a batch whose first and third tickers are the same and
\* whose second differs has issued its request
C27_Witness ==
    /\ entry = "batch" /\ Len(tickers) = 3 /\ i = 3 /\ Len(calls) = 2
    /\ tickers[1] # tickers[2] /\ tickers[3] = tickers[1]
    /\ pc = "check_data" /\ Len(reqs) > 0

\* a scorer instance exists and is in use
Constructed == pc \notin {"tool", "responded"}

AbsVal(x) == IF x < 0 THEN -x ELSE x

\* C29: the normalized score of a produced result is a function of the sum S of
\* its five scores alone: S is in -9..9, the score is (S + 9) / 18 * 100 rounded
\* to the nearest hundredth, the weighted raw score is S * 2.1 / 9 rounded to the
\* nearest thousandth, the clamp leaves the value as it is, and a smaller sum
\* gives a strictly smaller score, a larger sum a strictly larger one.
C29_NormalizedFromSum ==
    Produced =>
        LET S == SumOf(ret)
            n == ret.normalized_trend_score
            w == ret.weighted_raw_score
            ScoreFor(T) == RoundNormalized(Clamp(Normalize(WeightedRaw(T, weight))))
        IN /\ S \in -9..9
           /\ 2 * AbsVal(18 * n - 10000 * (S + 9)) < 18
           /\ 2 * AbsVal(9 * w - 2100 * S) < 9
           /\ Clamp(Normalize(WeightedRaw(S, weight))) = Normalize(WeightedRaw(S, weight))
           /\ \A T \in -9..9 : /\ T < S => ScoreFor(T) < n
                               /\ T = S => ScoreFor(T) = n
                               /\ T > S => ScoreFor(T) > n

\* a sum of -8, whose score 5.5555... is rounded up to 5.56
C29_Witness ==
    Produced /\ SumOf(ret) = -8 /\ ret.normalized_trend_score = 556
             /\ ret.weighted_raw_score = -1867

\* the longest series a period's window can hold: one bar on each calendar
\* date from end - days to end
FullWindow == ~IsNone(data) /\ WellFormed(data) /\ data.n = _period_to_days(period) + 1

\* C30: every supported period can produce a score: a call whose fetch returned
\* a well-formed series filling the whole window of 1mo, 3mo, 6mo, 1y or 2y
\* returns a result; the 31-day window of 1mo holds the 50 bars required.
C30_EveryPeriodCanScore ==
    /\ pc = "return" /\ period \in {"1mo", "3mo", "6mo", "1y", "2y"} /\ FullWindow
          => ~IsNone(ret)
    /\ pc = "return" /\ period = "1mo" /\ FullWindow => data.n >= MinBars
=============================================================================
